---- MODULE Spec2Model ----
(***************************************************************************)
(* ContractAnalyzer: the paginated fetch with retry.                       *)
(*                                                                         *)
(*   EtherscanAPI      src/src/api/etherscan.api.ts       (client)         *)
(*   EtherscanService  src/src/services/etherscan.service.ts (orchestrator)*)
(*   sleep             src/src/utils/general.utils.ts                      *)
(*   main              src/src/get-logs.ts, src/unnamed/part_002           *)
(*                                                                         *)
(* One action is one synchronous run of JavaScript between two awaits: a   *)
(* call up to its first await, or the continuation of an await once the    *)
(* awaited promise has settled.  The upstream server, the network and the  *)
(* timer are the environment: they choose the outcome of every axios.get   *)
(* and the moment a timer fires.                                           *)
(***************************************************************************)
EXTENDS Integers, Sequences, FiniteSets, TLC

(***************************************************************************)
(* Bounds of the model.                                                    *)
(***************************************************************************)
\* block numbers are taken around the first MaxWindows multiples of a window
MaxWindows == 2
\* the upstream answers NOTOK at most MaxNotOk times during one fetch
MaxNotOk == 2
\* longest text of the `result` field handed to parseInt
MaxStrLen == 3
\* largest block number whose hexadecimal text is handed to parseInt
MaxBlock == 300

(***************************************************************************)
(* JavaScript strings are sequences of one-character strings.              *)
(***************************************************************************)
NOTOK == <<"N", "O", "T", "O", "K">>

\* String.prototype.slice(from, to) for 0 <= from <= to
slice(s, from, to) ==
  LET hi == IF to < Len(s) THEN to ELSE Len(s)
  IN  IF from >= hi THEN <<>> ELSE SubSeq(s, from + 1, hi)

(***************************************************************************)
(* JavaScript values that a response field can hold.  Every value has the  *)
(* same three fields so that values of different types can be compared.    *)
(***************************************************************************)
Undefined == [t |-> "undefined", s |-> <<>>, a |-> <<>>]
Str(s) == [t |-> "string", s |-> s, a |-> <<>>]
Arr(a) == [t |-> "array", s |-> <<>>, a |-> a]
\* no value: an await that has not settled
None == [t |-> "none", s |-> <<>>, a |-> <<>>]

\* one record of a result array: the block of the window it was asked for,
\* and its number in the upstream's answer
Item(blk, idx) == [blk |-> blk, idx |-> idx, ch |-> ""]
\* one character of a string spread into an array
CharItem(c) == [blk |-> -1, idx |-> 0, ch |-> c]

\* [...data]: the elements an iterable yields
Spread(v) ==
  IF v.t = "array" THEN v.a
  ELSE [i \in 1..Len(v.s) |-> CharItem(v.s[i])]
\* undefined and null are not iterable: spreading them throws a TypeError
Iterable(v) == v.t \in {"array", "string"}

(***************************************************************************)
(* Constants of the program.                                               *)
(***************************************************************************)
\* Environment.ETHERSCAN_API_KEY, "" when the variable is not set
ETHERSCAN_API_KEY == ""
\* the argument of sleep in the retry branch
BackoffMs == 1000
\* itx: the internal-transaction operations; logs: the log operations
Kinds == {"itx", "logs"}
\* windows of half the size: block += 5000
StepHalved(kind) == IF kind = "itx" THEN 5000 ELSE 500
\* what the for loop adds to `block` after each window
Step(kind) == IF kind = "itx" THEN 10000 ELSE 1000
\* the window's last block taken one too far: block + 10000
SpanOffByOne(kind) == IF kind = "itx" THEN 10000 ELSE 1000
\* what the loop body adds to `block` to get the window's last block
Span(kind) == IF kind = "itx" THEN 9999 ELSE 999
\* the operations of EtherscanService take no topic for internal transactions
NoTopic == "-"

Addresses == {"0xa487", "0xc11p"}
Topics == {"0xt0p1c"}

\* the block numbers a caller passes: at and next to the multiples of the window
Blocks(kind) ==
  {k * Step(kind) + d : k \in 0..MaxWindows, d \in {0, 1}}

(***************************************************************************)
(* The state.  `procs` is the set of top-level fetches of a run; every     *)
(* other variable but `net` and `timers` is a function of it.              *)
(***************************************************************************)
VARIABLES
  procs,    \* the top-level fetches
  svc,      \* the frame of the EtherscanService operation of each fetch
  api,      \* the stack of EtherscanAPI frames under it (the retry recursion)
  ret,      \* the value a finished EtherscanAPI frame hands to its awaiter
  net,      \* the axios.get requests in flight
  timers,   \* the setTimeout timers pending
  sent,     \* history: every request handed to axios.get, in order
  windows,  \* console.log: the "Processing from .. to .." lines
  warns,    \* console.warn: how many warnings each layer wrote
  rets,     \* history: what the client returned for each window
  stat,     \* history of the running client call: its requests, the NOTOKs
            \* the upstream gave it and its sleeps; the NOTOKs of the whole
            \* fetch; the client's warnings before the last outcome
  lastResp, \* history: the last outcome axios.get gave the client call
  latest,   \* the call of EtherscanAPI.getLatestBlock of each run
  main,     \* the entry point of each run: where it is, its arguments, the
            \* latest block it got, what it printed and the files it wrote
  wanted    \* the window size the caller of the fetch would like; the
            \* operations have no parameter for it and nothing reads it

vars == <<procs, main, latest, wanted, svc, api, ret, net, timers, sent, windows, warns, rets, stat, lastResp>>

\* the parameters of axios.get, EtherscanAPI.getInternalTransactionsByAddress
ItxParams(address, startblock, endblock) ==
  [module |-> "account", action |-> "txlistinternal", address |-> address,
   topic0 |-> NoTopic, from |-> startblock, to |-> endblock,
   apikey |-> ETHERSCAN_API_KEY]
\* the parameters of axios.get, EtherscanAPI.getLogsByAddressTopic
LogsParams(address, topic, startblock, endblock) ==
  [module |-> "logs", action |-> "getLogs", address |-> address,
   topic0 |-> topic, from |-> startblock, to |-> endblock,
   apikey |-> ETHERSCAN_API_KEY]
Params(kind, address, topic, startblock, endblock) ==
  IF kind = "itx" THEN ItxParams(address, startblock, endblock)
  ELSE LogsParams(address, topic, startblock, endblock)

(***************************************************************************)
(* What axios.get can give back.                                           *)
(***************************************************************************)
Statuses == {Str(<<"0">>), Str(<<"1">>), Str(<<"2">>), Undefined}
\* the message of a failure: NOTOK, NOTOK and more, less than NOTOK, the
\* "No ... found" of an empty range, or none
Messages ==
  { Str(NOTOK), Str(NOTOK \o <<"-">>), Str(<<"N", "O", "T">>),
    Str(<<"N", "o">>), Undefined }
\* the result field of a success for a request from block b: an array of
\* records in the upstream's own order, or no array at all
Results(b) == {Arr(<<>>), Arr(<<Item(b, 2), Item(b, 1)>>), Undefined}
\* the result field of a failure: a text
FailureText == Str(<<"M", "x">>)
\* a rejected promise (network error, HTTP error status)
Fault == [err |-> TRUE, obj |-> FALSE, status |-> Undefined,
          message |-> Undefined, result |-> Undefined]
\* a body that is no object: response.data is null
NullBody == [err |-> FALSE, obj |-> FALSE, status |-> Undefined,
             message |-> Undefined, result |-> Undefined]
NoResp == [err |-> FALSE, obj |-> FALSE, status |-> None,
           message |-> None, result |-> None]
Bodies(b) ==
  { [err |-> FALSE, obj |-> TRUE, status |-> Str(<<"1">>), message |-> m, result |-> r] :
      m \in {Str(<<"O", "K">>), Str(NOTOK)}, r \in Results(b) }
  \cup
  { [err |-> FALSE, obj |-> TRUE, status |-> st, message |-> m, result |-> FailureText] :
      st \in Statuses \ {Str(<<"1">>)}, m \in Messages }
Outcomes(b) == {Fault, NullBody} \cup Bodies(b)

\* the upstream's transient failure: a body with status "0" and a message
\* that begins with NOTOK
TransientFailure(r) ==
  /\ ~r.err /\ r.obj
  /\ r.status = Str(<<"0">>)
  /\ r.message.t = "string"
  /\ Len(r.message.s) >= 5
  /\ \A i \in 1..5 : r.message.s[i] = NOTOK[i]
\* the upstream's success: a body with status "1"
Success(r) == ~r.err /\ r.obj /\ r.status = Str(<<"1">>)

(***************************************************************************)
(* Numbers: an integer or NaN.  parseInt(string, 16) as ECMAScript defines *)
(* it: leading white space is dropped, then a sign, then 0x or 0X; the     *)
(* longest run of hexadecimal digits that follows is the number, and NaN   *)
(* when that run is empty.  What follows the run is ignored.               *)
(***************************************************************************)
NaN == [nan |-> TRUE, v |-> 0]
Num(n) == [nan |-> FALSE, v |-> n]

HexDigits ==
  <<"0", "1", "2", "3", "4", "5", "6", "7", "8", "9", "a", "b", "c", "d", "e", "f">>
UpperHexDigits ==
  <<"0", "1", "2", "3", "4", "5", "6", "7", "8", "9", "A", "B", "C", "D", "E", "F">>
IsHexDigit(c) ==
  \E i \in 1..16 : HexDigits[i] = c \/ UpperHexDigits[i] = c
HexValue(c) ==
  (CHOOSE i \in 1..16 : HexDigits[i] = c \/ UpperHexDigits[i] = c) - 1

WhiteSpace == {" "}

\* decimal digits, their longest run and its number
IsDecimalDigit(c) == \E i \in 1..10 : HexDigits[i] = c
RECURSIVE DecimalRun(_)
DecimalRun(s) ==
  IF s # <<>> /\ IsDecimalDigit(s[1]) THEN <<s[1]>> \o DecimalRun(Tail(s)) ELSE <<>>
RECURSIVE DecimalNumber(_)
DecimalNumber(z) ==
  IF z = <<>> THEN 0
  ELSE 10 * DecimalNumber(SubSeq(z, 1, Len(z) - 1)) + HexValue(z[Len(z)])

RECURSIVE TrimStart(_)
TrimStart(s) ==
  IF s # <<>> /\ s[1] \in WhiteSpace THEN TrimStart(Tail(s)) ELSE s

\* the longest prefix of s made of hexadecimal digits
RECURSIVE DigitRun(_)
DigitRun(s) ==
  IF s # <<>> /\ IsHexDigit(s[1]) THEN <<s[1]>> \o DigitRun(Tail(s)) ELSE <<>>

\* the number a run of hexadecimal digits denotes
RECURSIVE HexNumber(_)
HexNumber(z) ==
  IF z = <<>> THEN 0
  ELSE 16 * HexNumber(SubSeq(z, 1, Len(z) - 1)) + HexValue(z[Len(z)])

\* parseInt(string, 10): the digits are decimal, and 0x is no prefix
parseInt10(string) ==
  LET trimmed == TrimStart(string)
      negative == trimmed # <<>> /\ trimmed[1] = "-"
      unsigned == IF trimmed # <<>> /\ trimmed[1] \in {"+", "-"}
                  THEN Tail(trimmed) ELSE trimmed
      z == DecimalRun(unsigned)
  IN  IF z = <<>> THEN NaN
      ELSE Num(IF negative THEN 0 - DecimalNumber(z) ELSE DecimalNumber(z))

parseInt16(string) ==
  LET trimmed == TrimStart(string)
      negative == trimmed # <<>> /\ trimmed[1] = "-"
      unsigned == IF trimmed # <<>> /\ trimmed[1] \in {"+", "-"}
                  THEN Tail(trimmed) ELSE trimmed
      stripped == IF Len(unsigned) >= 2 /\ unsigned[1] = "0" /\ unsigned[2] \in {"x", "X"}
                  THEN SubSeq(unsigned, 3, Len(unsigned)) ELSE unsigned
      z == DigitRun(stripped)
  IN  IF z = <<>> THEN NaN
      ELSE Num(IF negative THEN 0 - HexNumber(z) ELSE HexNumber(z))

\* if (value): absent values and the empty string are falsy
Truthy(v) == v.t = "string" /\ v.s # <<>>

\* how a call ends: it returns a number or it throws
NoOut == [t |-> "none", num |-> NaN]
Returns(n) == [t |-> "return", num |-> n]
Thrown == [t |-> "throw", num |-> NaN]

(***************************************************************************)
(* Init: nothing has been called.                                          *)
(***************************************************************************)
LatestIdle == [pc |-> "idle", result |-> None, out |-> NoOut]
MainIdle ==
  [pc |-> "idle", script |-> "get-logs", address |-> "", topic |-> NoTopic,
   startBlock |-> 0, endblock |-> NaN, found |-> -1, writes |-> <<>>]
IdleFrame ==
  [pc |-> "idle", kind |-> "logs", address |-> "", topic |-> NoTopic,
   startblock |-> 0, endblock |-> 0, endnan |-> FALSE, block |-> 0,
   start |-> 0, end |-> 0, result |-> <<>>, ret |-> None]
NoStat == [reqs |-> 0, notoks |-> 0, sleeps |-> 0, all |-> 0, warned |-> 0]

InitOf(P) ==
  /\ procs = P
  /\ svc = [p \in P |-> IdleFrame]
  /\ api = [p \in P |-> <<>>]
  /\ ret = [p \in P |-> None]
  /\ net = {}
  /\ timers = {}
  /\ sent = [p \in P |-> <<>>]
  /\ windows = [p \in P |-> <<>>]
  /\ warns = [p \in P |-> [api |-> 0, svc |-> 0]]
  /\ rets = [p \in P |-> <<>>]
  /\ stat = [p \in P |-> NoStat]
  /\ lastResp = [p \in P |-> NoResp]
  /\ latest = [p \in P |-> LatestIdle]
  /\ main = [p \in P |-> MainIdle]
  /\ wanted = [p \in P |-> 0]

Init == InitOf({1})

(***************************************************************************)
(* sleep(milliseconds): returns at once for milliseconds <= 0, otherwise   *)
(* sets a timer; the promise resolves when the timer has fired.            *)
(***************************************************************************)
\* a wait that grows with the timers the fetch has set before: the interval
\* times their number plus one
sleepGrowing(p, milliseconds) ==
  IF milliseconds <= 0
  THEN timers' = timers
  ELSE timers' = timers \cup {[p |-> p, ms |-> milliseconds * (stat[p].sleeps + 1)]}

sleep(p, milliseconds) ==
  IF milliseconds <= 0
  THEN timers' = timers
  ELSE timers' = timers \cup {[p |-> p, ms |-> milliseconds]}

\* sleep called without await: the caller goes on while the timer runs
SleptNotAwaited(p) == TRUE
\* the promise of sleep has resolved
Slept(p) == \A tm \in timers : tm.p # p

\* a timer whose callback never calls res()
TimerNeverFires(p) ==
  /\ FALSE
  /\ UNCHANGED vars

\* setTimeout's callback: res()
TimerFire(p) ==
  /\ \E tm \in timers : tm.p = p /\ timers' = timers \ {tm}
  /\ UNCHANGED <<procs, main, latest, wanted, svc, api, ret, net, sent, windows, warns, rets, stat, lastResp>>

(***************************************************************************)
(* EtherscanAPI.getLatestBlock                                             *)
(***************************************************************************)
LatestParams ==
  [module |-> "proxy", action |-> "eth_blockNumber", address |-> "",
   topic0 |-> NoTopic, from |-> 0, to |-> 0, apikey |-> ETHERSCAN_API_KEY]

\* the characters of the result texts tried
Chars == {"0", "1", "f", "x", "g", "-"}
RECURSIVE Texts(_)
Texts(n) ==
  IF n = 0 THEN {<<>>}
  ELSE LET shorter == Texts(n - 1)
       IN  shorter \cup {Append(s, c) : s \in shorter, c \in Chars}

\* the hexadecimal text of a block number n >= 0, as eth_blockNumber gives
\* it: 0x, then the digits of n without leading zeros
RECURSIVE ToHex(_, _)
ToHex(digits, n) ==
  IF n < 16 THEN <<digits[n + 1]>>
  ELSE Append(ToHex(digits, n \div 16), digits[(n % 16) + 1])
HexText(digits, n) == <<"0", "x">> \o ToHex(digits, n)
\* the texts of the block numbers tried, in lower and in upper case
BlockTexts ==
  {HexText(digits, n) : digits \in {HexDigits, UpperHexDigits}, n \in 0..MaxBlock}

\* what axios.get can give back to getLatestBlock: the JSON-RPC answer has
\* no status; a refusal has status "0" and message NOTOK
LatestOutcomes ==
  {Fault, NullBody}
  \cup { [err |-> FALSE, obj |-> TRUE, status |-> st[1], message |-> st[2], result |-> r] :
           st \in {<<Undefined, Undefined>>, <<Str(<<"0">>), Str(NOTOK)>>},
           r \in {Undefined} \cup {Str(s) : s \in Texts(MaxStrLen) \cup BlockTexts} }

\* the call, up to `await axios.get(...)`
getLatestBlock(p) ==
  /\ latest[p].pc = "idle"
  /\ latest' = [latest EXCEPT ![p].pc = "get"]
  /\ net' = net \cup {[p |-> p, req |-> LatestParams]}
  /\ sent' = [sent EXCEPT ![p] = Append(@, LatestParams)]
  /\ UNCHANGED <<procs, wanted, svc, api, ret, timers, windows, warns, rets, stat, lastResp>>

\* the try block after the await: the value returned, or Thrown
LatestDecode(r) ==
  IF r.err \/ ~r.obj THEN Thrown
  ELSE IF Truthy(r.result) THEN Returns(parseInt16(r.result.s))
  ELSE Thrown

\* the continuation of `await axios.get(...)` with outcome r; the catch
\* throws again whatever was thrown
LatestResponse(p, r) ==
  /\ latest[p].pc = "get"
  /\ \E m \in net : m.p = p /\ m.req = LatestParams /\ net' = net \ {m}
  /\ latest' = [latest EXCEPT ![p] =
                  [pc |-> "done", result |-> IF r.err \/ ~r.obj THEN None ELSE r.result,
                   out |-> LatestDecode(r)]]
  /\ lastResp' = [lastResp EXCEPT ![p] = r]
  /\ UNCHANGED <<procs, main, wanted, svc, api, ret, timers, sent, windows, warns, rets, stat>>

(***************************************************************************)
(* EtherscanAPI.getInternalTransactionsByAddress / getLogsByAddressTopic   *)
(***************************************************************************)
ApiFrame(kind, address, topic, startblock, endblock) ==
  [pc |-> "get", kind |-> kind, address |-> address, topic |-> topic,
   startblock |-> startblock, endblock |-> endblock]

\* the call, up to `await axios.get(...)`: a new frame and a request in flight
ApiEnter(p, stack, kind, address, topic, startblock, endblock) ==
  LET req == Params(kind, address, topic, startblock, endblock)
  IN  /\ api' = [api EXCEPT ![p] =
                   Append(stack, ApiFrame(kind, address, topic, startblock, endblock))]
      /\ net' = net \cup {[p |-> p, req |-> req]}
      /\ sent' = [sent EXCEPT ![p] = Append(@, req)]

\* the retry test without the message: every status "0" is retried
IsRetryOnAnyFailure(r) == r.status = Str(<<"0">>)
\* response.data.status === "0" && response.data.message.slice(0, 5) === "NOTOK"
\* evaluated on an object body; reading .slice of an absent message throws
IsRetry(r) ==
  /\ r.status = Str(<<"0">>)
  /\ slice(r.message.s, 0, 5) = NOTOK
\* response.data.status === "1"
IsSuccess(r) == r.status = Str(<<"1">>)
\* what makes the try block throw: the rejected promise, response.data that
\* is null, or message.slice when the message is absent
Throws(r) ==
  \/ r.err
  \/ ~r.obj
  \/ (r.status = Str(<<"0">>) /\ r.message.t # "string")

\* a return value kept in one place for all the fetches, as a static field
\* of the class would be
ApiReturnShared(p, v) ==
  /\ api' = [api EXCEPT ![p] = SubSeq(@, 1, Len(@) - 1)]
  /\ ret' = [q \in procs |-> v]
\* the frame on top of the stack returns v to its awaiter
ApiReturn(p, v) ==
  /\ api' = [api EXCEPT ![p] = SubSeq(@, 1, Len(@) - 1)]
  /\ ret' = [ret EXCEPT ![p] = v]

\* a catch block that warns and falls off its end: it returns undefined
ApiCatchReturnsNothing(p) ==
  /\ warns' = [warns EXCEPT ![p].api = @ + 1]
  /\ ApiReturn(p, Undefined)

\* the catch block: console.warn, return []
ApiCatch(p) ==
  /\ warns' = [warns EXCEPT ![p].api = @ + 1]
  /\ ApiReturn(p, Arr(<<>>))

\* the continuation of `await axios.get(...)` with outcome r
ApiResponse(p, r) ==
  /\ api[p] # <<>>
  /\ api[p][Len(api[p])].pc = "get"
  /\ \E m \in net : m.p = p /\ net' = net \ {m}
  /\ TransientFailure(r) => stat[p].all < MaxNotOk
  /\ stat' = [stat EXCEPT
       ![p].notoks = IF TransientFailure(r) THEN @ + 1 ELSE @,
       ![p].all = IF TransientFailure(r) THEN @ + 1 ELSE @,
       ![p].sleeps = IF ~Throws(r) /\ IsRetry(r) THEN @ + 1 ELSE @,
       ![p].warned = warns[p].api]
  /\ lastResp' = [lastResp EXCEPT ![p] = r]
  /\ IF Throws(r)
     THEN /\ ApiCatch(p)
          /\ UNCHANGED timers
     ELSE IF IsRetry(r)
     THEN /\ sleep(p, BackoffMs)
          /\ api' = [api EXCEPT ![p][Len(api[p])].pc = "sleep"]
          /\ UNCHANGED <<ret, warns>>
     ELSE IF IsSuccess(r)
     THEN /\ ApiReturn(p, r.result)
          /\ UNCHANGED <<timers, warns>>
     ELSE /\ ApiReturn(p, Arr(<<>>))
          /\ UNCHANGED <<timers, warns>>
  /\ UNCHANGED <<procs, main, latest, wanted, svc, sent, windows, rets>>

\* a retry that gives up: after the second request of a call the frame
\* returns [] instead of calling again
ApiRetryGivesUp(p) ==
  /\ api[p] # <<>>
  /\ LET f == api[p][Len(api[p])]
     IN  /\ f.pc = "sleep"
         /\ Slept(p)
         /\ IF stat[p].reqs >= 2
            THEN /\ ApiReturn(p, Arr(<<>>))
                 /\ UNCHANGED <<net, sent, stat>>
            ELSE /\ ApiEnter(p, [api[p] EXCEPT ![Len(api[p])].pc = "call"],
                             f.kind, f.address, f.topic, f.startblock, f.endblock)
                 /\ stat' = [stat EXCEPT ![p].reqs = @ + 1]
                 /\ UNCHANGED ret
  /\ UNCHANGED <<procs, main, latest, wanted, svc, timers, windows, warns, rets, lastResp>>

\* the continuation of `await sleep(1000)`: the same operation is called
\* again with the frame's own arguments
ApiRetry(p) ==
  /\ api[p] # <<>>
  /\ LET f == api[p][Len(api[p])]
     IN  /\ f.pc = "sleep"
         /\ Slept(p)
         /\ ApiEnter(p, [api[p] EXCEPT ![Len(api[p])].pc = "call"],
                     f.kind, f.address, f.topic, f.startblock, f.endblock)
  /\ stat' = [stat EXCEPT ![p].reqs = @ + 1]
  /\ UNCHANGED <<procs, main, latest, wanted, svc, ret, timers, windows, warns, rets, lastResp>>

\* the retried result dropped: the awaiting frame returns [] of its own
ApiUnwindDropsResult(p) ==
  /\ api[p] # <<>>
  /\ api[p][Len(api[p])].pc = "call"
  /\ ret[p] # None
  /\ ApiReturn(p, Arr(<<>>))
  /\ UNCHANGED <<procs, main, latest, wanted, svc, net, timers, sent, windows, warns, rets, stat, lastResp>>

\* the continuation of `await this.get...(...)`: return result
ApiUnwind(p) ==
  /\ api[p] # <<>>
  /\ api[p][Len(api[p])].pc = "call"
  /\ ret[p] # None
  /\ ApiReturn(p, ret[p])
  /\ UNCHANGED <<procs, main, latest, wanted, svc, net, timers, sent, windows, warns, rets, stat, lastResp>>

(***************************************************************************)
(* EtherscanService.getInternalTransactionsByAddress /                     *)
(* getLogsByAddressTopic                                                   *)
(***************************************************************************)
\* a window that is never cut at the end of the range: end = block + 9999
WindowEndUncut(kind, block, endblock) == block + Span(kind)
\* const end = block + 9999 < endblock ? block + 9999 : endblock
WindowEnd(kind, block, endblock) ==
  IF block + Span(kind) < endblock THEN block + Span(kind) ELSE endblock

\* block += 10000
NextBlock(kind, block) == block + Step(kind)

\* the window's records put in front: [...data, ...result]
AccumulateInFront(result, data) == Spread(data) \o result
\* result = [...result, ...data]
Accumulate(result, data) == result \o Spread(data)

\* a loop that tests nothing before its first window
LoopTestSkipped(f) == f.block = f.startblock \/ (~f.endnan /\ f.block <= f.endblock)
\* block <= endblock; a comparison with NaN is false
LoopTest(f) == ~f.endnan /\ f.block <= f.endblock

\* the loop test, and the loop body up to `await EtherscanAPI.get...(...)`,
\* or `return result` when the test fails; f is the frame at the test
Iterate(p, f) ==
  IF LoopTest(f)
  THEN LET start == f.block
           end == WindowEnd(f.kind, f.block, f.endblock)
       IN  /\ svc' = [svc EXCEPT ![p] =
                        [f EXCEPT !.pc = "await", !.start = start, !.end = end]]
           /\ windows' = [windows EXCEPT ![p] = Append(@, <<start, end>>)]
           /\ ApiEnter(p, <<>>, f.kind, f.address, f.topic, start, end)
           /\ stat' = [stat EXCEPT ![p] = [NoStat EXCEPT !.reqs = 1, !.all = stat[p].all,
                                                        !.warned = warns[p].api]]
  ELSE /\ svc' = [svc EXCEPT ![p] = [f EXCEPT !.pc = "done", !.ret = Arr(f.result)]]
       /\ UNCHANGED <<windows, api, net, sent, stat>>

\* the call: let result = [], block = startblock, then the loop; endblock
\* is a number, an integer or NaN
ServiceCall(p, kind, address, topic, startblock, endblock, windowSize) ==
  /\ svc[p].pc = "idle"
  /\ wanted' = [wanted EXCEPT ![p] = windowSize]
  /\ Iterate(p, [IdleFrame EXCEPT !.kind = kind, !.address = address,
                   !.topic = topic, !.startblock = startblock,
                   !.endblock = endblock.v, !.endnan = endblock.nan,
                   !.block = startblock])
  /\ UNCHANGED <<procs, latest, ret, timers, warns, rets, lastResp>>

getInternalTransactionsByAddress(p, address, startblock, endblock, windowSize) ==
  ServiceCall(p, "itx", address, NoTopic, startblock, endblock, windowSize)

getLogsByAddressTopic(p, address, topic, startblock, endblock, windowSize) ==
  ServiceCall(p, "logs", address, topic, startblock, endblock, windowSize)

\* the client call the service awaits has returned
Settled(p) == api[p] = <<>> /\ ret[p] # None

\* a catch block that returns what was accumulated before the throw
ServiceResumeReturnsPartial(p) ==
  /\ svc[p].pc = "await"
  /\ Settled(p)
  /\ LET data == ret[p]
         f == svc[p]
     IN  /\ rets' = [rets EXCEPT ![p] = Append(@, data)]
         /\ IF Iterable(data)
            THEN /\ Iterate(p, [f EXCEPT !.result = Accumulate(f.result, data),
                                         !.block = NextBlock(f.kind, f.block)])
                 /\ UNCHANGED warns
            ELSE /\ svc' = [svc EXCEPT ![p] = [f EXCEPT !.pc = "done", !.ret = Arr(f.result)]]
                 /\ warns' = [warns EXCEPT ![p].svc = @ + 1]
                 /\ UNCHANGED <<windows, api, net, sent, stat>>
  /\ ret' = [ret EXCEPT ![p] = None]
  /\ lastResp' = [lastResp EXCEPT ![p] = NoResp]
  /\ UNCHANGED <<procs, main, latest, wanted, timers>>

\* the continuation of `await EtherscanAPI.get...(...)`:
\* result = [...result, ...data], the loop's increment, then the loop; a
\* data that cannot be spread throws into the catch, which warns and
\* returns []
ServiceResume(p) ==
  /\ svc[p].pc = "await"
  /\ Settled(p)
  /\ LET data == ret[p]
         f == svc[p]
     IN  /\ rets' = [rets EXCEPT ![p] = Append(@, data)]
         /\ IF Iterable(data)
            THEN /\ Iterate(p, [f EXCEPT !.result = Accumulate(f.result, data),
                                         !.block = NextBlock(f.kind, f.block)])
                 /\ UNCHANGED warns
            ELSE /\ svc' = [svc EXCEPT ![p] = [f EXCEPT !.pc = "done", !.ret = Arr(<<>>)]]
                 /\ warns' = [warns EXCEPT ![p].svc = @ + 1]
                 /\ UNCHANGED <<windows, api, net, sent, stat>>
  /\ ret' = [ret EXCEPT ![p] = None]
  /\ lastResp' = [lastResp EXCEPT ![p] = NoResp]
  /\ UNCHANGED <<procs, main, latest, wanted, timers>>

(***************************************************************************)
(* The windowed fetch: one top-level call and everything under it.         *)
(***************************************************************************)
\* the ranges of the fetches whose end is looked for: MaxWindows windows
\* from block 0, and one window from block 1
FairRanges(kind) ==
  {<<0, (MaxWindows - 1) * Step(kind)>>, <<1, Step(kind)>>}

\* what runs once a fetch has been called
Run ==
  \/ \E m \in net : \E r \in Outcomes(m.req.from) : ApiResponse(m.p, r)
  \/ \E p \in procs : TimerFire(p)
  \/ \E p \in procs : ApiRetry(p)
  \/ \E p \in procs : ApiUnwind(p)
  \/ \E p \in procs : ServiceResume(p)

\* the call of a fetch by a caller that would like windows of the
\* documented size divided by one of D
CallSized(D) ==
  \/ \E p \in procs, a \in Addresses :
       \E s \in Blocks("itx"), e \in Blocks("itx"), d \in D :
         /\ getInternalTransactionsByAddress(p, a, s, Num(e), Step("itx") \div d)
         /\ UNCHANGED main
  \/ \E p \in procs, a \in Addresses, tp \in Topics :
       \E s \in Blocks("logs"), e \in Blocks("logs"), d \in D :
         /\ getLogsByAddressTopic(p, a, tp, s, Num(e), Step("logs") \div d)
         /\ UNCHANGED main

\* the caller is content with the windows the operations document
Next ==
  \/ CallSized({1})
  \/ Run

Spec == Init /\ [][Next]_vars

(***************************************************************************)
(* The windowed fetch called by a caller that would like another window    *)
(* size: half of the documented one.                                       *)
(***************************************************************************)
NextSized ==
  \/ CallSized({2})
  \/ Run

SpecSized == Init /\ [][NextSized]_vars

(***************************************************************************)
(* The windowed fetch under the scheduling of the runtime: the event loop  *)
(* runs every continuation that is ready, a timer that was set fires, and  *)
(* the upstream answers every request; it answers NOTOK no more than       *)
(* MaxNotOk times during a fetch.                                          *)
(***************************************************************************)
NextFair ==
  \/ \E p \in procs, a \in Addresses :
       \E rg \in FairRanges("itx") :
         /\ getInternalTransactionsByAddress(p, a, rg[1], Num(rg[2]), Step("itx"))
         /\ UNCHANGED main
  \/ \E p \in procs, a \in Addresses, tp \in Topics :
       \E rg \in FairRanges("logs") :
         /\ getLogsByAddressTopic(p, a, tp, rg[1], Num(rg[2]), Step("logs"))
         /\ UNCHANGED main
  \/ Run

Fairness ==
  /\ WF_vars(\E m \in net : \E r \in Outcomes(m.req.from) : ApiResponse(m.p, r))
  /\ WF_vars(\E p \in procs : TimerFire(p))
  /\ WF_vars(\E p \in procs : ApiRetry(p))
  /\ WF_vars(\E p \in procs : ApiUnwind(p))
  /\ WF_vars(\E p \in procs : ServiceResume(p))

SpecFair == Init /\ [][NextFair]_vars /\ Fairness

(***************************************************************************)
(* The latest-block lookup alone.                                          *)
(***************************************************************************)
NextLatest ==
  \/ \E p \in procs : getLatestBlock(p) /\ UNCHANGED main
  \/ \E p \in procs : \E r \in LatestOutcomes : LatestResponse(p, r)

SpecLatest == Init /\ [][NextLatest]_vars

(***************************************************************************)
(* The entry points: get-logs.ts, which writes the logs it fetched to      *)
(* ./data/logs.json, and the profit script, which fetches the internal     *)
(* transactions of one address and prints what it computes from them.      *)
(* Nothing catches what main throws: the run ends with the rejection.  The *)
(* file system is taken to work: ./data exists and can be written, and     *)
(* ./data/clipper-logs.json can be read.                                   *)
(***************************************************************************)
\* JSON text is a sequence of tokens; the token of a record stands for the
\* text of its object
Token(c) == [tok |-> c, item |-> Item(0, 0)]
ObjectToken(x) == [tok |-> "{}", item |-> x]

\* the elements of an array, with a comma between two of them
RECURSIVE Elements(_)
Elements(a) ==
  IF a = <<>> THEN <<>>
  ELSE IF Len(a) = 1 THEN <<ObjectToken(a[1])>>
  ELSE <<ObjectToken(a[1]), Token(",")>> \o Elements(Tail(a))

\* a text flushed window by window: only the first record gets into it
stringifyFirst(a) ==
  <<Token("[")>> \o Elements(IF a = <<>> THEN a ELSE <<a[1]>>) \o <<Token("]")>>
\* JSON.stringify of an array of records
stringify(a) == <<Token("[")>> \o Elements(a) \o <<Token("]")>>

LogsFile == "./data/logs.json"
\* fs.writeFileSync(path, data), on the history of the writes
writeFileSync(writes, path, data) == Append(writes, [path |-> path, data |-> data])

\* the address the profit script asks the internal transactions of
ClipperAddress == "0xa487e3c1d7880675f5578e24110ba138c2558c1e"

\* the latest block the upstream reports in the runs tried, and its text
LatestText == <<"0", "x", "7", "5", "3", "0">>
LatestBlock == parseInt16(LatestText).v
\* the start blocks the user gives: MaxWindows windows before the latest
\* block, and the block after it
Starts(kind) ==
  {LatestBlock - (MaxWindows - 1) * Step(kind), LatestBlock + 1}

\* what axios.get gives back to getLatestBlock in these runs: a fault, no
\* body, an answer without result, the latest block, and the refusal of a
\* rate limit, whose result is a text
MainLatestOutcomes ==
  { Fault, NullBody,
    [err |-> FALSE, obj |-> TRUE, status |-> Undefined, message |-> Undefined,
     result |-> Undefined],
    [err |-> FALSE, obj |-> TRUE, status |-> Undefined, message |-> Undefined,
     result |-> Str(LatestText)],
    [err |-> FALSE, obj |-> TRUE, status |-> Str(<<"0">>), message |-> Str(NOTOK),
     result |-> FailureText] }

\* main of get-logs.ts with the arguments yargs parsed, up to
\* `await EtherscanAPI.getLatestBlock()`
GetLogsMain(p, address, topic, startBlock) ==
  /\ main[p].pc = "idle"
  /\ main' = [main EXCEPT ![p] =
                [MainIdle EXCEPT !.pc = "latest", !.script = "get-logs",
                                 !.address = address, !.topic = topic,
                                 !.startBlock = startBlock]]
  /\ getLatestBlock(p)

\* main of the profit script, up to `await EtherscanAPI.getLatestBlock()`
ProfitMain(p, startBlock) ==
  /\ main[p].pc = "idle"
  /\ main' = [main EXCEPT ![p] =
                [MainIdle EXCEPT !.pc = "latest", !.script = "profit",
                                 !.startBlock = startBlock]]
  /\ getLatestBlock(p)

\* a rejection that is swallowed: main goes on with no number
NeverRaised(p) == FALSE
\* getLatestBlock threw: the await throws inside main
Raised(p) == latest[p].out = Thrown

\* the continuation of `await EtherscanAPI.getLatestBlock()`: main is
\* rejected with what was thrown, or calls the service with the number
\* returned, up to the service's first await
MainResume(p) ==
  /\ main[p].pc = "latest"
  /\ latest[p].pc = "done"
  /\ IF Raised(p)
     THEN /\ main' = [main EXCEPT ![p].pc = "rejected"]
          /\ UNCHANGED <<procs, latest, wanted, svc, api, ret, net, timers, sent,
                         windows, warns, rets, stat, lastResp>>
     ELSE LET endblock == latest[p].out.num
          IN  /\ main' = [main EXCEPT ![p].pc = "fetch", ![p].endblock = endblock]
              /\ IF main[p].script = "get-logs"
                 THEN getLogsByAddressTopic(p, main[p].address, main[p].topic,
                                            main[p].startBlock, endblock, Step("logs"))
                 ELSE getInternalTransactionsByAddress(p, ClipperAddress,
                                            main[p].startBlock, endblock, Step("itx"))

\* the continuation of `await EtherscanService.get...(...)`: get-logs.ts
\* prints the number of logs and writes them; the profit script prints what
\* it computed and writes nothing
MainFinish(p) ==
  /\ main[p].pc = "fetch"
  /\ svc[p].pc = "done"
  /\ IF main[p].script = "get-logs"
     THEN main' = [main EXCEPT
            ![p].pc = "done",
            ![p].found = Len(svc[p].ret.a),
            ![p].writes = writeFileSync(@, LogsFile, stringify(svc[p].ret.a))]
     ELSE main' = [main EXCEPT ![p].pc = "done"]
  /\ UNCHANGED <<procs, latest, wanted, svc, api, ret, net, timers, sent, windows,
                 warns, rets, stat, lastResp>>

NextMain ==
  \/ \E p \in procs, a \in Addresses, tp \in Topics :
       \E s \in Starts("logs") : GetLogsMain(p, a, tp, s)
  \/ \E p \in procs : \E s \in Starts("itx") : ProfitMain(p, s)
  \/ \E p \in procs : \E r \in MainLatestOutcomes : LatestResponse(p, r)
  \/ \E p \in procs : MainResume(p)
  \/ \E p \in procs : MainFinish(p)
  \/ Run

SpecMain == Init /\ [][NextMain]_vars

(***************************************************************************)
(* Two fetches of one run, called one after the other before either is     *)
(* awaited, as in Promise.all([fetch(...), fetch(...)]): both calls run up  *)
(* to their first await before any continuation does.  The upstream is a   *)
(* function of the request and of the attempt, so that what a fetch gets   *)
(* for a window does not depend on what else is running.                   *)
(***************************************************************************)
\* the ranges the two fetches are called with: MaxWindows windows, and one
ParallelRanges(kind) ==
  {<<0, (MaxWindows - 1) * Step(kind)>>, <<1, Step(kind)>>}

OkBody(result) ==
  [err |-> FALSE, obj |-> TRUE, status |-> Str(<<"1">>),
   message |-> Str(<<"O", "K">>), result |-> result]
NotOkBody ==
  [err |-> FALSE, obj |-> TRUE, status |-> Str(<<"0">>),
   message |-> Str(NOTOK), result |-> FailureText]

\* the answer to the attempt-th request of a client call: for the first
\* address, NOTOK to the first attempt at the first window, then two
\* records; for the other, two records for a range from block 0, but no
\* result for its last window, and a fault for a range from another block
Upstream(req, attempt) ==
  IF req.address = "0xa487"
  THEN IF attempt = 1 /\ req.from <= 1
       THEN NotOkBody
       ELSE OkBody(Arr(<<Item(req.from, 2), Item(req.from, 1)>>))
  ELSE IF req.from % 2 = 1 THEN Fault
       ELSE IF req.from = 0 THEN OkBody(Arr(<<Item(req.from, 2), Item(req.from, 1)>>))
       ELSE OkBody(Undefined)

\* every fetch of the run has been called
AllCalled == \A p \in procs : svc[p].pc # "idle"

NextParallel ==
  \/ \E p \in procs, a \in Addresses :
       \E rg \in ParallelRanges("itx") :
         /\ getInternalTransactionsByAddress(p, a, rg[1], Num(rg[2]), Step("itx"))
         /\ UNCHANGED main
  \/ \E p \in procs, a \in Addresses, tp \in Topics :
       \E rg \in ParallelRanges("logs") :
         /\ getLogsByAddressTopic(p, a, tp, rg[1], Num(rg[2]), Step("logs"))
         /\ UNCHANGED main
  \/ AllCalled /\ \E m \in net : ApiResponse(m.p, Upstream(m.req, stat[m.p].reqs))
  \/ AllCalled /\ \E p \in procs : TimerFire(p)
  \/ AllCalled /\ \E p \in procs : ApiRetry(p)
  \/ AllCalled /\ \E p \in procs : ApiUnwind(p)
  \/ AllCalled /\ \E p \in procs : ServiceResume(p)

SpecParallel == InitOf({1, 2}) /\ [][NextParallel]_vars

(***************************************************************************)
(* The claims.                                                             *)
(***************************************************************************)
\* the window size the specification gives each operation
ClaimedWindow(kind) == IF kind = "itx" THEN 10000 ELSE 1000
\* ceil((e - s + 1) / w), and no window for an empty range
ClaimedCount(kind, s, e) ==
  IF s > e THEN 0 ELSE (e - s + ClaimedWindow(kind)) \div ClaimedWindow(kind)

\* the fetch of p has been called
Called(p) == svc[p].pc # "idle"
\* the fetch of p has returned from the end of its loop
Completed(p) == svc[p].pc = "done" /\ warns[p].svc = 0
\* the (start, end) pair of a request
Pair(req) == <<req.from, req.to>>

\* C1: the (start, end) pairs passed to the client over one orchestrator
\* call on [s, e], 0 <= s <= e, partition [s, e]: the first window starts at
\* s, every next one at the end of the previous one plus 1, no window is
\* empty or passes e, every request carries the pair of its window, and a
\* call that reaches the end of its loop has issued ceil((e - s + 1) / w)
\* windows, the last one ending at e (w = 10000 for internal transactions,
\* 1000 for logs).
C1_WindowsPartitionRange ==
  \A p \in procs :
    LET f == svc[p]
        ws == windows[p]
        n == Len(ws)
    IN  (Called(p) /\ f.startblock <= f.endblock) =>
          /\ n >= 1
          /\ ws[1][1] = f.startblock
          /\ \A i \in 1..n : ws[i][1] <= ws[i][2] /\ ws[i][2] <= f.endblock
          /\ \A i \in 1..(n - 1) : ws[i + 1][1] = ws[i][2] + 1
          /\ \A i \in 1..(n - 1) : ws[i][2] - ws[i][1] + 1 = ClaimedWindow(f.kind)
          /\ n <= ClaimedCount(f.kind, f.startblock, f.endblock)
          /\ \A i \in 1..Len(sent[p]) : \E j \in 1..n : Pair(sent[p][i]) = ws[j]
          /\ \A j \in 1..n : \E i \in 1..Len(sent[p]) : Pair(sent[p][i]) = ws[j]
          /\ Completed(p) =>
               /\ ws[n][2] = f.endblock
               /\ n = ClaimedCount(f.kind, f.startblock, f.endblock)

\* C1 witness: a fetch from block 1 has reached the end of its loop after
\* three windows, the last of them a single block
C1_Witness ==
  \E p \in procs :
    /\ Completed(p)
    /\ svc[p].startblock = 1
    /\ Len(windows[p]) = 3
    /\ windows[p][3][1] = windows[p][3][2]

\* the concatenation of the sequences the client returned, in window order
RECURSIVE Concat(_)
Concat(rs) ==
  IF rs = <<>> THEN <<>>
  ELSE Concat(SubSeq(rs, 1, Len(rs) - 1)) \o Spread(rs[Len(rs)])
\* the sum of their lengths
RECURSIVE TotalLen(_)
TotalLen(rs) ==
  IF rs = <<>> THEN 0 ELSE Len(Spread(rs[1])) + TotalLen(Tail(rs))
\* every client call so far returned a sequence
AllSequences(p) == \A i \in 1..Len(rets[p]) : Iterable(rets[p][i])

\* C2: the sequence a windowed fetch accumulates, and returns at the end of
\* its loop, is the concatenation in window order of the sequences the client
\* returned for the windows, each in the order received: window i returned
\* for the i-th window issued, an empty return adds nothing and the loop goes
\* on, the records of a window come before those of every later window, and
\* the length is the sum of the lengths returned.
C2_ResultIsConcatenation ==
  \A p \in procs :
    LET f == svc[p]
        acc == IF f.pc = "done" THEN f.ret.a ELSE f.result
    IN  (Called(p) /\ AllSequences(p) /\ warns[p].svc = 0) =>
          /\ f.pc = "done" => f.ret.t = "array"
          /\ acc = Concat(rets[p])
          /\ Len(acc) = TotalLen(rets[p])
          /\ \A i, j \in 1..Len(acc) : i < j => acc[i].blk <= acc[j].blk
          /\ \A k \in 1..Len(rets[p]) :
               /\ k <= Len(windows[p])
               /\ \A i \in 1..Len(rets[p][k].a) : rets[p][k].a[i].blk = windows[p][k][1]
          /\ Completed(p) => Len(rets[p]) = Len(windows[p])

\* C2 witness: three windows, the first and the last returned two records
\* each and the middle one none; the fetch returned the four records
C2_Witness ==
  \E p \in procs :
    /\ Completed(p)
    /\ Len(rets[p]) = 3
    /\ Len(rets[p][1].a) = 2 /\ rets[p][2] = Arr(<<>>) /\ Len(rets[p][3].a) = 2
    /\ Len(svc[p].ret.a) = 4

\* the requests of the client call that is running or has just returned
CallRequests(p) ==
  SubSeq(sent[p], Len(sent[p]) - stat[p].reqs + 1, Len(sent[p]))

\* C3: a windowed client call whose first attempt got a transient failure
\* (status "0", message beginning NOTOK) and whose retry got a success
\* (status "1") returns the result of the retried response, and every request
\* of the call carries the parameters of the first one: the address, the
\* topic, the start block and the end block of the window.
C3_RetryReturnsRetriedResult ==
  \A p \in procs :
    LET f == svc[p]
        reqs == CallRequests(p)
    IN  /\ (f.pc = "await") =>
             \A i \in 1..Len(reqs) :
               /\ reqs[i] = reqs[1]
               /\ reqs[i] = Params(f.kind, f.address, f.topic, f.start, f.end)
        /\ (Settled(p) /\ stat[p].notoks >= 1 /\ Success(lastResp[p])) =>
             /\ ret[p] = lastResp[p].result
             /\ Len(reqs) = stat[p].notoks + 1

\* C3 witness: one NOTOK, then a success with two records, and the call has
\* returned them to the service
C3_Witness ==
  \E p \in procs :
    /\ Settled(p)
    /\ stat[p].notoks = 1
    /\ Success(lastResp[p])
    /\ Len(ret[p].a) = 2
    /\ Len(CallRequests(p)) = 2

\* the frame of the client call that is running, when there is one
Top(p) == api[p][Len(api[p])]
\* requests and timers of p that are pending
InFlight(p) == {m \in net : m.p = p}
Pending(p) == {tm \in timers : tm.p = p}

\* C4: a windowed client call retries for as long as the upstream answers
\* NOTOK, whatever the count: after k NOTOKs in a row the call has made k
\* requests and k backoff waits and has not returned, once the wait is over
\* the next request can always be made and makes the count k + 1 with one
\* request in flight, and the call returns only after an outcome that is not
\* a NOTOK.
C4_RetriesWhileNotOk ==
  \A p \in procs :
    /\ (api[p] # <<>> /\ Top(p).pc = "sleep") =>
         /\ TransientFailure(lastResp[p])
         /\ stat[p].notoks >= 1
         /\ stat[p].reqs = stat[p].notoks
         /\ stat[p].sleeps = stat[p].notoks
         /\ Len(api[p]) = stat[p].notoks
         /\ ret[p] = None /\ svc[p].pc = "await"
         /\ InFlight(p) = {}
         /\ Slept(p) => ENABLED ApiRetry(p)
    /\ (api[p] # <<>> /\ Top(p).pc = "get") =>
         /\ stat[p].reqs = stat[p].notoks + 1
         /\ stat[p].sleeps = stat[p].notoks
         /\ Len(api[p]) = stat[p].reqs
         /\ Cardinality(InFlight(p)) = 1
         /\ ret[p] = None /\ svc[p].pc = "await"
    /\ (lastResp[p] # NoResp /\ TransientFailure(lastResp[p])) =>
         (ret[p] = None /\ svc[p].pc = "await" /\ api[p] # <<>>)
    /\ ret[p] # None =>
         /\ ~TransientFailure(lastResp[p])
         /\ stat[p].reqs = stat[p].notoks + 1
         /\ stat[p].sleeps = stat[p].notoks

\* C4 witness: the upstream has answered NOTOK MaxNotOk times in a row to one
\* call; the call is in its backoff wait and has not returned
C4_Witness ==
  \E p \in procs :
    /\ api[p] # <<>> /\ Top(p).pc = "sleep"
    /\ stat[p].notoks = MaxNotOk
    /\ stat[p].reqs = MaxNotOk
    /\ ret[p] = None

\* the outcome is a body with neither the success status nor a NOTOK failure
NeitherSuccessNorNotOk(r) ==
  r # NoResp /\ ~r.err /\ r.obj /\ ~Success(r) /\ ~TransientFailure(r)

\* C5: a windowed client call that receives a body with neither the success
\* status nor a NOTOK failure (status "0" with a message that does not begin
\* with NOTOK, any other status, no status) returns the empty sequence after
\* that one response: no backoff wait is started and no request is made
\* after it, and when the body has a message no warning is written.
C5_OtherStatusIsEmpty ==
  \A p \in procs :
    NeitherSuccessNorNotOk(lastResp[p]) =>
      /\ ret[p] = Arr(<<>>)
      /\ InFlight(p) = {}
      /\ Pending(p) = {}
      /\ stat[p].sleeps = stat[p].notoks
      /\ stat[p].reqs = stat[p].notoks + 1
      /\ Len(api[p]) < stat[p].reqs
      /\ lastResp[p].message.t = "string" => warns[p].api = stat[p].warned

\* C5 witness: the first response of a call has status "0" and a message
\* that is not NOTOK, and the call has returned [] to the service
C5_Witness ==
  \E p \in procs :
    /\ lastResp[p].status = Str(<<"0">>)
    /\ lastResp[p].message = Str(<<"N", "o">>)
    /\ Settled(p)
    /\ ret[p] = Arr(<<>>)
    /\ stat[p].reqs = 1

\* the outcome is a transport-level fault: the request failed, or the body
\* is no object
TransportFault(r) == r # NoResp /\ (r.err \/ ~r.obj)

\* what the service does next when it goes on after the window of its frame:
\* the next window is requested, or the loop is over and the accumulated
\* result is returned
GoesOn(p) ==
  /\ ServiceResume(p)
  /\ IF svc[p].end < svc[p].endblock
     THEN /\ svc'[p].pc = "await"
          /\ svc'[p].start = svc[p].end + 1
          /\ svc'[p].result = svc[p].result
          /\ \E m \in net' : m.p = p /\ m.req.from = svc[p].end + 1
     ELSE /\ svc'[p].pc = "done"
          /\ svc'[p].ret = Arr(svc[p].result)
          /\ warns'[p].svc = 0

\* C6: a windowed client call that meets a transport-level fault, on its
\* first attempt or on a retry, writes one warning and returns the empty
\* sequence for the window: nothing is raised to the service, the window is
\* not requested again and no wait is started, and the service goes on with
\* the next window (or returns what it has accumulated after the last one).
C6_FaultIsWarnedAndEmpty ==
  \A p \in procs :
    TransportFault(lastResp[p]) =>
      /\ ret[p] = Arr(<<>>)
      /\ warns[p].api = stat[p].warned + 1
      /\ warns[p].svc = 0 /\ svc[p].pc = "await"
      /\ InFlight(p) = {} /\ Pending(p) = {}
      /\ stat[p].reqs = stat[p].notoks + 1
      /\ stat[p].sleeps = stat[p].notoks
      /\ Len(api[p]) < stat[p].reqs
      /\ Settled(p) => ENABLED GoesOn(p)

\* C6 witness: a retry met a fault after one NOTOK, the call has returned []
\* to the service with one warning, and another window is left to fetch
C6_Witness ==
  \E p \in procs :
    /\ TransportFault(lastResp[p])
    /\ stat[p].notoks = 1
    /\ Settled(p) /\ ret[p] = Arr(<<>>)
    /\ warns[p].api = 1
    /\ svc[p].end < svc[p].endblock

\* what the service accumulated from the client's returns that are sequences
Accumulated(p) == Concat(SelectSeq(rets[p], Iterable))

\* C7: no window-level outcome aborts the fetch: whatever the responses and
\* faults (status, message, shape of the result), a fetch that has returned
\* has requested every window of its range and returns everything it
\* accumulated from them.
C7_NoOutcomeAbortsFetch ==
  \A p \in procs :
    svc[p].pc = "done" =>
      /\ Len(windows[p]) = ClaimedCount(svc[p].kind, svc[p].startblock, svc[p].endblock)
      /\ svc[p].ret = Arr(Accumulated(p))

\* a result text that denotes a block number: hexadecimal digits, after 0x
\* or without it
Decodable(v) ==
  /\ v.t = "string"
  /\ LET s == v.s
         digits == IF Len(s) >= 2 /\ s[1] = "0" /\ s[2] \in {"x", "X"}
                   THEN SubSeq(s, 3, Len(s)) ELSE s
     IN  digits # <<>> /\ \A i \in 1..Len(digits) : IsHexDigit(digits[i])

\* C8: getLatestBlock raises whenever the response carries no decodable
\* result (no body, the result absent, empty, or not a hexadecimal number);
\* it never returns a value that is not an integer.
C8_UndecodableResultRaises ==
  \A p \in procs :
    latest[p].pc = "done" =>
      /\ ~Decodable(latest[p].result) => latest[p].out = Thrown
      /\ latest[p].out.t = "return" => ~latest[p].out.num.nan

\* C9: the windows of a fetch are processed one after the other: at most
\* one request or backoff wait of the fetch is pending at any moment, it
\* belongs to the window the service is waiting for, and that window is the
\* only one issued whose client call has not returned; once the fetch has
\* returned nothing of it is pending.
C9_OneWindowAtATime ==
  \A p \in procs :
    /\ Cardinality(InFlight(p)) + Cardinality(Pending(p)) <= 1
    /\ \A m \in InFlight(p) :
         /\ svc[p].pc = "await"
         /\ Pair(m.req) = <<svc[p].start, svc[p].end>>
         /\ Pair(m.req) = windows[p][Len(windows[p])]
    /\ Pending(p) # {} => (svc[p].pc = "await" /\ api[p] # <<>> /\ Top(p).pc = "sleep")
    /\ svc[p].pc = "await" => Len(windows[p]) = Len(rets[p]) + 1
    /\ svc[p].pc = "done" =>
         /\ InFlight(p) = {} /\ Pending(p) = {} /\ api[p] = <<>>
         /\ Len(windows[p]) = Len(rets[p])

\* C9 witness: the request of the second window is in flight, after the
\* call for the first window was retried once and returned
C9_Witness ==
  \E p \in procs :
    /\ Len(windows[p]) = 2 /\ Len(rets[p]) = 1
    /\ Len(sent[p]) = 3
    /\ Cardinality(InFlight(p)) = 1
    /\ Pair(sent[p][1]) = Pair(sent[p][2])

\* the width of a window
Width(w) == w[2] - w[1] + 1

\* C10 as stated: the window size is the caller's: the windows issued have
\* the width the caller would like, the last one possibly shorter.
C10_WindowSizeIsSupplied ==
  \A p \in procs :
    Called(p) =>
      \A i \in 1..Len(windows[p]) :
        IF windows[p][i][2] < svc[p].endblock
        THEN Width(windows[p][i]) = wanted[p]
        ELSE Width(windows[p][i]) <= wanted[p]

\* C10 as amended: the window size is fixed by the operation, 10000 blocks
\* for internal transactions and 1000 for logs, whatever size the caller
\* would like: a window starts every 10000 (1000) blocks, every window
\* before the last has that width and the last is not wider.
C10_WindowSizeIsFixed ==
  \A p \in procs :
    Called(p) =>
      /\ \A i \in 1..Len(windows[p]) :
           IF windows[p][i][2] < svc[p].endblock
           THEN Width(windows[p][i]) = ClaimedWindow(svc[p].kind)
           ELSE Width(windows[p][i]) <= ClaimedWindow(svc[p].kind)
      /\ \A i \in 1..(Len(windows[p]) - 1) :
           windows[p][i + 1][1] - windows[p][i][1] = ClaimedWindow(svc[p].kind)

\* C10 witness: a caller that would like windows of 500 blocks of logs gets
\* a first window of 1000 blocks, and a second window
C10_Witness ==
  \E p \in procs :
    /\ svc[p].kind = "logs" /\ wanted[p] = 500
    /\ Len(windows[p]) = 2
    /\ Width(windows[p][1]) = 1000

\* nothing of the run of p can take a step
Halted(p) ==
  ~ENABLED (MainResume(p) \/ MainFinish(p) \/ ServiceResume(p)
            \/ ApiRetry(p) \/ ApiUnwind(p) \/ TimerFire(p))

\* C11: in both entry points, when getLatestBlock raises the run ends before
\* the service is called: the service has no frame, the only request ever
\* handed to axios.get is the one of the latest-block lookup, no window was
\* logged, nothing is in flight or waiting, no file has been written, and
\* once main is rejected no step of the run is left to take.
C11_FailedLookupAbortsRun ==
  \A p \in procs :
    (latest[p].pc = "done" /\ latest[p].out = Thrown) =>
      /\ main[p].pc \in {"latest", "rejected"}
      /\ svc[p].pc = "idle" /\ api[p] = <<>>
      /\ sent[p] = <<LatestParams>>
      /\ windows[p] = <<>> /\ rets[p] = <<>>
      /\ InFlight(p) = {} /\ Pending(p) = {}
      /\ main[p].writes = <<>>
      /\ main[p].pc = "rejected" => Halted(p)

\* C11 witness: the answer to the latest-block lookup of get-logs.ts had no
\* result, and main has been rejected
C11_Witness ==
  \E p \in procs :
    /\ main[p].script = "get-logs"
    /\ main[p].pc = "rejected"
    /\ lastResp[p].obj /\ lastResp[p].result = Undefined

\* JSON.parse of the text of an array: its elements in order
IsObject(k) == k.tok = "{}"
Parsed(text) ==
  LET objects == SelectSeq(text, IsObject)
  IN  [i \in 1..Len(objects) |-> objects[i].item]
\* the text is an array: brackets around elements separated by commas
WellFormed(text) ==
  /\ Len(text) >= 2
  /\ text[1] = Token("[") /\ text[Len(text)] = Token("]")
  /\ \A i \in 2..(Len(text) - 1) :
       IF i % 2 = 0 THEN IsObject(text[i]) ELSE text[i] = Token(",")
  /\ Len(text) > 2 => IsObject(text[Len(text) - 1])

\* C12: get-logs.ts writes its output once per run that succeeds, and after
\* the fetch only: at most one write ever happens; while a window is
\* awaited, or before the service was called, nothing has been written; a
\* write is there exactly when main has returned, and then the client call of
\* every window has returned and nothing is pending; the file is
\* ./data/logs.json and its text is the JSON array of the whole sequence the
\* service returned, which for a fetch that reached the end of its loop is
\* the concatenation of what the client returned for the windows.
C12_WrittenOnceAfterLastWindow ==
  \A p \in procs :
    main[p].script = "get-logs" =>
      LET ws == main[p].writes
      IN  /\ Len(ws) <= 1
          /\ svc[p].pc # "done" => ws = <<>>
          /\ main[p].pc = "done" <=> Len(ws) = 1
          /\ Len(ws) = 1 =>
               /\ svc[p].pc = "done"
               /\ Len(rets[p]) = Len(windows[p])
               /\ api[p] = <<>> /\ InFlight(p) = {} /\ Pending(p) = {}
               /\ ws[1].path = LogsFile
               /\ WellFormed(ws[1].data)
               /\ Parsed(ws[1].data) = svc[p].ret.a
               /\ main[p].found = Len(svc[p].ret.a)
               /\ Completed(p) => Parsed(ws[1].data) = Concat(rets[p])
               /\ Halted(p)

\* C12 witness: a run of get-logs.ts over two windows that returned two
\* records each has written the four records
C12_Witness ==
  \E p \in procs :
    /\ main[p].script = "get-logs" /\ main[p].pc = "done"
    /\ Len(windows[p]) = 2
    /\ Len(rets[p][1].a) = 2 /\ Len(rets[p][2].a) = 2
    /\ Len(Parsed(main[p].writes[1].data)) = 4

\* what the client returns for a request when nothing else runs: the
\* attempts are made one after the other until one is not retried
RECURSIVE ClientAlone(_, _)
ClientAlone(req, attempt) ==
  LET r == Upstream(req, attempt)
  IN  IF Throws(r) THEN Arr(<<>>)
      ELSE IF IsRetry(r) THEN ClientAlone(req, attempt + 1)
      ELSE IF IsSuccess(r) THEN r.result
      ELSE Arr(<<>>)

\* what the client returns for the windows of [block, endblock], one after
\* the other, up to the first return that is no sequence
RECURSIVE RetsAlone(_, _, _, _, _)
RetsAlone(kind, address, topic, block, endblock) ==
  IF block > endblock THEN <<>>
  ELSE LET end == IF block + ClaimedWindow(kind) - 1 < endblock
                  THEN block + ClaimedWindow(kind) - 1 ELSE endblock
           data == ClientAlone(Params(kind, address, topic, block, end), 1)
       IN  IF Iterable(data)
           THEN <<data>> \o RetsAlone(kind, address, topic, block + ClaimedWindow(kind), endblock)
           ELSE <<data>>

\* what the fetch returns when it runs alone
ResultAlone(rs) ==
  IF \A i \in 1..Len(rs) : Iterable(rs[i]) THEN Concat(rs) ELSE <<>>

\* s is a prefix of t
IsPrefix(s, t) == Len(s) <= Len(t) /\ SubSeq(t, 1, Len(s)) = s

\* C13: two fetches running in parallel against an upstream whose answer
\* depends on the request and the attempt only, their steps interleaved in
\* any order: at every moment what the client has returned to a fetch for
\* its windows is a prefix of what it returns when the fetch runs alone,
\* the fetch that has returned has returned the sequence it returns alone,
\* every request and every pending wait of a fetch is for a window of that
\* fetch, with its own address and topic, and every record it holds comes
\* from one of its own windows.
C13_ParallelFetchesDoNotInterfere ==
  \A p \in procs :
    Called(p) =>
      LET f == svc[p]
          alone == RetsAlone(f.kind, f.address, f.topic, f.startblock, f.endblock)
          held == IF f.pc = "done" THEN f.ret.a ELSE f.result
      IN  /\ IsPrefix(rets[p], alone)
          /\ f.pc = "done" =>
               /\ rets[p] = alone
               /\ f.ret = Arr(ResultAlone(alone))
          /\ \A i \in 1..Len(sent[p]) :
               /\ \E j \in 1..Len(windows[p]) : Pair(sent[p][i]) = windows[p][j]
               /\ sent[p][i].address = f.address /\ sent[p][i].topic0 = f.topic
          /\ \A i \in 1..Len(held) :
               \E j \in 1..Len(windows[p]) : held[i].blk = windows[p][j][1]
          /\ ret[p] # None => (f.pc = "await" /\ ret[p] = ClientAlone(sent[p][Len(sent[p])], 1))

\* C13 witness: an internal-transaction fetch and a log fetch of the same
\* address were called together; the first has returned its four records
\* after a retry while the second is in the backoff wait of its first window
C13_Witness ==
  /\ svc[1].kind = "itx" /\ svc[2].kind = "logs"
  /\ svc[1].address = svc[2].address
  /\ svc[1].pc = "done" /\ Len(svc[1].ret.a) = 4 /\ Len(sent[1]) = 3
  /\ svc[2].pc = "await" /\ Pending(2) # {} /\ rets[2] = <<>>

\* C14: a fetch called on a single-block range, s = e, has from its call on
\* exactly one window, [s, s]; the service calls the client once, for that
\* window: every request it sends, retries included, is for [s, s], and
\* when the fetch has returned the client has returned once.
C14_SingleBlockRangeIsOneWindow ==
  \A p \in procs :
    (Called(p) /\ svc[p].startblock = svc[p].endblock) =>
      LET s == svc[p].startblock
      IN  /\ windows[p] = << <<s, s>> >>
          /\ Len(sent[p]) >= 1
          /\ \A i \in 1..Len(sent[p]) : Pair(sent[p][i]) = <<s, s>>
          /\ Len(rets[p]) <= 1
          /\ svc[p].pc = "await" => (rets[p] = <<>> /\ svc[p].start = s /\ svc[p].end = s)
          /\ svc[p].pc = "done" => Len(rets[p]) = 1
          /\ Len(sent[p]) = stat[p].reqs

\* C14 witness: a log fetch of the single block 1001 has returned the two
\* records of its one window
C14_Witness ==
  \E p \in procs :
    /\ svc[p].kind = "logs"
    /\ svc[p].startblock = 1001 /\ svc[p].endblock = 1001
    /\ Completed(p)
    /\ Len(svc[p].ret.a) = 2

\* C15: getLatestBlock decodes the hexadecimal text of the result to the
\* integer it denotes: for every n in 0..MaxBlock, a response whose result
\* is 0x followed by the hexadecimal digits of n, in lower or upper case,
\* makes the call return n, and the number returned is not NaN.
C15_HexResultDecodesToItsNumber ==
  \A p \in procs :
    latest[p].pc = "done" =>
      \A n \in 0..MaxBlock :
        latest[p].result \in {Str(HexText(HexDigits, n)), Str(HexText(UpperHexDigits, n))} =>
          latest[p].out = Returns(Num(n))

\* C15 witness: the result was "0x10" and the call has returned 16
C15_Witness ==
  \E p \in procs :
    /\ latest[p].pc = "done"
    /\ latest[p].result = Str(<<"0", "x", "1", "0">>)
    /\ latest[p].out = Returns(Num(16))

\* the states of a backoff: a pending wait of a fetch is the only one, has
\* the interval of 1000 ms, follows a NOTOK, and while it is pending the
\* client call sleeps, no request of the fetch is in flight and the retry
\* cannot be made; every NOTOK so far was followed by one wait
BackoffState ==
  \A p \in procs :
    /\ \A tm \in Pending(p) :
         /\ tm.ms = 1000
         /\ Pending(p) = {tm}
         /\ InFlight(p) = {}
         /\ api[p] # <<>> /\ Top(p).pc = "sleep"
         /\ TransientFailure(lastResp[p])
         /\ ~ENABLED ApiRetry(p)
    /\ (api[p] # <<>> /\ Top(p).pc = "sleep") =>
         (stat[p].sleeps = stat[p].notoks /\ stat[p].reqs = stat[p].notoks)
    /\ (api[p] # <<>> /\ Top(p).pc = "get") =>
         (stat[p].sleeps = stat[p].notoks /\ stat[p].reqs = stat[p].notoks + 1)

\* the steps of a backoff: a wait starts in the step that receives a NOTOK,
\* and only there; a request that follows a NOTOK is sent with the wait
\* over, and repeats the request before it; a wait ends by its timer alone,
\* and that step changes nothing else
BackoffStep ==
  \A p \in procs :
    /\ Pending(p)' # Pending(p) /\ Pending(p)' # {} =>
         /\ TransientFailure(lastResp'[p])
         /\ InFlight(p) # {} /\ InFlight(p)' = {}
         /\ Pending(p) = {}
         /\ Pending(p)' = {[p |-> p, ms |-> 1000]}
    /\ (lastResp'[p] # lastResp[p] /\ TransientFailure(lastResp'[p])) =>
         Pending(p)' = {[p |-> p, ms |-> 1000]}
    /\ (api[p] # <<>> /\ Top(p).pc = "sleep" /\ sent'[p] # sent[p]) =>
         /\ Pending(p) = {} /\ Pending(p)' = {}
         /\ sent'[p] = Append(sent[p], sent[p][Len(sent[p])])
    /\ Pending(p) # {} =>
         /\ sent'[p] = sent[p]
         /\ Pending(p)' = {} =>
              UNCHANGED <<procs, main, latest, wanted, svc, api, ret, net, sent,
                          windows, warns, rets, stat, lastResp>>

\* C16: between a NOTOK response and the retry request that follows it
\* exactly one backoff wait is started, of 1000 ms whatever the number of
\* retries before it, and it runs to its end: the retry is not sent, and no
\* other request of the fetch is sent, while the wait is pending.
C16_OneFixedBackoffPerRetry == []BackoffState /\ [][BackoffStep]_vars

\* C16 witness: the third request of a client call is in flight, after two
\* NOTOKs and two waits that have ended
C16_Witness ==
  \E p \in procs :
    /\ api[p] # <<>> /\ Top(p).pc = "get"
    /\ stat[p].notoks = 2 /\ stat[p].sleeps = 2 /\ stat[p].reqs = 3
    /\ Pending(p) = {} /\ Cardinality(InFlight(p)) = 1

\* the lookup made one request and no wait, and is over once answered
LatestIssuesOneRequest(p) ==
  /\ sent[p] = <<LatestParams>>
  /\ Pending(p) = {}
  /\ latest[p].pc = "get" => InFlight(p) = {[p |-> p, req |-> LatestParams]}
  /\ latest[p].pc = "done" =>
       (InFlight(p) = {} /\ ~ENABLED getLatestBlock(p)
        /\ \A r \in LatestOutcomes : ~ENABLED LatestResponse(p, r))

\* the answer is a failure: a transport fault or a NOTOK failure response
LatestFailure(r) == TransportFault(r) \/ TransientFailure(r)

\* C17: a call of getLatestBlock issues exactly one upstream request
\* whatever the response, performs no backoff, and on a failure (a NOTOK
\* failure response or a transport fault) ends by throwing to its caller.
C17_LatestFailsWithoutRetry ==
  \A p \in procs :
    latest[p].pc # "idle" =>
      /\ LatestIssuesOneRequest(p)
      /\ (latest[p].pc = "done" /\ LatestFailure(lastResp[p])) =>
           latest[p].out = Thrown

\* the part of C17 that holds: one request, no wait, and a transport fault
\* is thrown to the caller
LatestNeverRetried ==
  \A p \in procs :
    latest[p].pc # "idle" =>
      /\ LatestIssuesOneRequest(p)
      /\ (latest[p].pc = "done" /\ TransportFault(lastResp[p])) =>
           latest[p].out = Thrown

\* the window the service waits for has had no answer but NOTOK
Starved(p) ==
  /\ svc[p].pc = "await"
  /\ lastResp[p] = NoResp \/ TransientFailure(lastResp[p])

\* as long as a window has had no answer but NOTOK the fetch has not
\* returned, the client has returned nothing for the window, the service
\* cannot go on and the last window requested is that one; a fetch that has
\* returned got a return of the client for every window it requested
BlockedWhileStarved ==
  \A p \in procs :
    /\ Starved(p) =>
         /\ ret[p] = None
         /\ ~ENABLED ServiceResume(p)
         /\ Len(rets[p]) = Len(windows[p]) - 1
         /\ windows[p][Len(windows[p])] = <<svc[p].start, svc[p].end>>
         /\ \A i \in 1..Len(sent[p]) : sent[p][i].from <= svc[p].start
    /\ ret[p] # None => ~TransientFailure(lastResp[p])
    /\ svc[p].pc = "done" => Len(rets[p]) = Len(windows[p])

SomeCalled == \E p \in procs : Called(p)
AllReturned == \A p \in procs : svc[p].pc = "done"

\* C18: a fetch that was called returns in the end when the upstream, for
\* every window requested, ends up giving an answer that is not NOTOK; and
\* for as long as a window has got NOTOK at every attempt the fetch has not
\* returned and no window after it has been requested.
C18_ReturnsUnlessStarved ==
  /\ []BlockedWhileStarved
  /\ SomeCalled ~> AllReturned

\* C18 witness: a fetch of MaxWindows windows has returned after the
\* upstream answered NOTOK MaxNotOk times to its last window
C18_Witness ==
  \E p \in procs :
    /\ Completed(p)
    /\ svc[p].startblock = 0
    /\ Len(windows[p]) = MaxWindows
    /\ stat[p].notoks = MaxNotOk

\* C19: the service operations never raise to their caller.  What can raise
\* inside the window loop is the spread of a client return that is no
\* sequence: the service can always take that return, and when it has, it
\* has written one warning and returned the empty sequence, whatever it had
\* accumulated; no window was requested after the one that raised and
\* nothing is pending.  A fetch is never in another position than not
\* called, awaiting a window, or returned with an array.
C19_ServiceCatchReturnsEmpty ==
  \A p \in procs :
    /\ svc[p].pc \in {"idle", "await", "done"}
    /\ svc[p].pc = "done" => svc[p].ret.t = "array"
    /\ warns[p].svc <= 1
    /\ Settled(p) => ENABLED ServiceResume(p)
    /\ warns[p].svc = 1 <=> (rets[p] # <<>> /\ ~Iterable(rets[p][Len(rets[p])]))
    /\ \A i \in 1..(Len(rets[p]) - 1) : Iterable(rets[p][i])
    /\ warns[p].svc = 1 =>
         /\ svc[p].pc = "done"
         /\ svc[p].ret = Arr(<<>>)
         /\ Len(windows[p]) = Len(rets[p])
         /\ \A i \in 1..Len(sent[p]) : sent[p][i].from <= svc[p].start
         /\ InFlight(p) = {} /\ Pending(p) = {} /\ api[p] = <<>>
         /\ Halted(p)

\* C19 witness: the first window returned two records, the answer for the
\* second had no result; the service warned and returned [] with a third
\* window left
C19_Witness ==
  \E p \in procs :
    /\ warns[p].svc = 1
    /\ Len(rets[p]) = 2 /\ Len(rets[p][1].a) = 2 /\ rets[p][2] = Undefined
    /\ svc[p].end < svc[p].endblock
    /\ svc[p].pc = "done" /\ svc[p].ret = Arr(<<>>)

\* C20: a service operation called with a start block greater than the end
\* block, as the entry points do when the user's start is beyond the latest
\* block, returns the empty sequence in the call itself: no window is
\* logged, no windowed request is sent (the only request of the run is the
\* latest-block lookup), nothing is pending and no warning is written; and
\* get-logs.ts then can and does finish, having written the empty array to
\* ./data/logs.json.
C20_EmptyRangeWritesEmptyResult ==
  \A p \in procs :
    (Called(p) /\ ~svc[p].endnan /\ svc[p].startblock > svc[p].endblock) =>
      /\ svc[p].pc = "done" /\ svc[p].ret = Arr(<<>>)
      /\ windows[p] = <<>> /\ rets[p] = <<>>
      /\ sent[p] = <<LatestParams>>
      /\ InFlight(p) = {} /\ Pending(p) = {} /\ api[p] = <<>>
      /\ warns[p] = [api |-> 0, svc |-> 0]
      /\ main[p].pc \in {"fetch", "done"}
      /\ main[p].pc = "fetch" => ENABLED MainFinish(p)
      /\ (main[p].script = "get-logs" /\ main[p].pc = "done") =>
           /\ main[p].writes = << [path |-> LogsFile, data |-> <<Token("["), Token("]")>>] >>
           /\ main[p].found = 0

\* C20 witness: get-logs.ts was started one block after the latest block
\* and has written the empty array
C20_Witness ==
  \E p \in procs :
    /\ main[p].script = "get-logs" /\ main[p].pc = "done"
    /\ main[p].startBlock = LatestBlock + 1
    /\ main[p].endblock = Num(LatestBlock)
    /\ Len(main[p].writes) = 1 /\ Len(main[p].writes[1].data) = 2
    /\ sent[p] = <<LatestParams>>

====
